---- MODULE Spec2Model ----
(***************************************************************************)
(* A model of the software 2D rendering layer of uefapi (src/src/gfx.rs):  *)
(* geometry values (Pos, Dim, Rect, Area), the premultiplied-alpha Color   *)
(* model and its blend operators, the AreaPosIter pixel iterator, the      *)
(* clipped compose operations of Buffer, glyph drawing and glyph layout,   *)
(* the progress bar and the static Screen buffer.                          *)
(*                                                                         *)
(* Each part of the library is a small state machine of its own:           *)
(*   AreaSpec   Area::intersection and Area::normalize on two Areas        *)
(*   IterSpec   Area::pos_iter / AreaPosIter::next, one call per step      *)
(*   ColorSpec  colors built by rgba/rgb/gray and combined by the          *)
(*              operators of Color                                         *)
(*   BlendSpec  Color::premultiplied_over (gfx, gfx2) / additive_over on   *)
(*              arbitrary Color values (the fields of Color are public)    *)
(*   Spec       Buffer::apply, premultiplied_over and additive_over on a   *)
(*              destination and a source Buffer                            *)
(*   DrawSpec   Buffer::draw_font_rect, Buffer::draw_glyph and             *)
(*              ProgressBar::draw_normal, one call on one Buffer           *)
(*   LayoutSpec StraightGlyphCoordIterator and LineWrapGlyphCoordIterator, *)
(*              one call of next per step                                  *)
(*   ScreenSpec Screen::init / init_mode / get / rect / present and        *)
(*              sequences of drawing calls on the Screen buffer            *)
(***************************************************************************)
EXTENDS Integers, Sequences, FiniteSets, TLC

VARIABLES
    areaA, areaB,       \* the receiver and the argument of the Area methods
    isect,              \* result of areaA.intersection(areaB), or Pending
    norm,               \* result of areaA.normalize(), or Pending
    it,                 \* the AreaPosIter {area, pos}
    itDone,             \* AreaPosIter::next has returned None
    yielded,            \* the Pos values AreaPosIter::next has returned so far
    c1, c2,             \* two live Color values
    lastOp,             \* the last Color operation: receiver, argument, result
    nops,               \* number of Color operations applied so far
    dst, src,           \* the destination and the source Buffer
    dstBefore,          \* the destination Buffer as it was before the last call
    call,               \* the last Buffer call: its arguments and its outcome
    calls,              \* the blend_fn invocations of the last call, in order
    panicked,           \* the program has panicked (it performs nothing more)
    layout,             \* the glyph layout iterator: remaining input and cursor
    trace,              \* the calls of the layout's next so far, in order
    draw,               \* the last glyph or progress bar draw call and its outcome
    screen,             \* the static SCREEN Buffer
    scrCall,            \* the last Screen call: its arguments and its outcome
    inited,             \* Screen::init or Screen::init_mode has completed
    steps,              \* number of Screen and drawing calls made so far
    debug               \* the build has debug assertions and overflow checks

areaVars  == <<areaA, areaB, isect, norm>>
iterVars  == <<it, itDone, yielded>>
colorVars == <<c1, c2, lastOp, nops>>
bufVars   == <<dst, src, dstBefore, call, calls>>
layoutVars == <<layout, trace>>
screenVars == <<screen, scrCall, inited, steps>>
extVars   == <<layout, trace, draw, screen, scrCall, inited, steps, debug>>
vars == <<areaA, areaB, isect, norm, it, itDone, yielded, c1, c2, lastOp, nops,
          dst, src, dstBefore, call, calls, panicked,
         layout, trace, draw, screen, scrCall, inited, steps, debug>>

----------------------------------------------------------------------------
(* Bounds of the model.                                                    *)

\* Area corners of AreaSpec and IterSpec range over -1..MaxCoord.
MaxCoord == 1
\* Buffers are at most MaxDim wide and MaxDim high.
MaxDim == 2
\* At most MaxOps Color operations are applied in one behaviour of ColorSpec.
MaxOps == 3
\* The texts of LayoutSpec have at most MaxInput characters.
MaxInput == 3
\* At most MaxCalls calls are made in one behaviour of ScreenSpec.
MaxCalls == 4

Coords == -1..MaxCoord

Min(x, y) == IF x <= y THEN x ELSE y
Max(x, y) == IF x >= y THEN x ELSE y

----------------------------------------------------------------------------
(* Geometry: Pos, Dim, Rect, Area.                                         *)

pos(x, y) == [x |-> x, y |-> y]
dim(w, h) == [w |-> w, h |-> h]
rect(p, d) == [pos |-> p, dim |-> d]
area(p1, p2) == [pos1 |-> p1, pos2 |-> p2]

Pos_add(p, q) == pos(p.x + q.x, p.y + q.y)
Pos_sub(p, q) == pos(p.x - q.x, p.y - q.y)
Pos_dim(p) == dim(p.x, p.y)
Dim_pos(d) == pos(d.w, d.h)

Rect_area(r) == area(r.pos, Pos_add(r.pos, Dim_pos(r.dim)))
Area_rect(ar) == rect(ar.pos1, Pos_dim(Pos_sub(ar.pos2, ar.pos1)))

Area_normalize_MinY(ar) ==
    area(pos(Min(ar.pos1.x, ar.pos2.x), Min(ar.pos1.y, ar.pos2.y)),
         pos(Max(ar.pos1.x, ar.pos2.x), Min(ar.pos1.y, ar.pos2.y)))

Area_normalize(ar) ==
    area(pos(Min(ar.pos1.x, ar.pos2.x), Min(ar.pos1.y, ar.pos2.y)),
         pos(Max(ar.pos1.x, ar.pos2.x), Max(ar.pos1.y, ar.pos2.y)))

\* Option<Area>: None carries a fixed dummy payload so that values compare.
ZeroArea == area(pos(0, 0), pos(0, 0))
None == [some |-> FALSE, val |-> ZeroArea]
Some(v) == [some |-> TRUE, val |-> v]
\* A result that has not been computed yet.
Pending == [some |-> FALSE, val |-> area(pos(0, 0), pos(-1, -1))]

Area_intersection_Closed(ar, other) ==
    LET box == area(pos(Max(ar.pos1.x, other.pos1.x), Max(ar.pos1.y, other.pos1.y)),
                    pos(Min(ar.pos2.x, other.pos2.x), Min(ar.pos2.y, other.pos2.y)))
    IN  IF box.pos1.x <= box.pos2.x /\ box.pos1.y <= box.pos2.y
        THEN Some(box) ELSE None

Area_intersection(ar, other) ==
    LET box == area(pos(Max(ar.pos1.x, other.pos1.x), Max(ar.pos1.y, other.pos1.y)),
                    pos(Min(ar.pos2.x, other.pos2.x), Min(ar.pos2.y, other.pos2.y)))
    IN  IF box.pos1.x < box.pos2.x /\ box.pos1.y < box.pos2.y
        THEN Some(box) ELSE None

AllAreas == { area(pos(x1, y1), pos(x2, y2)) : x1 \in Coords, y1 \in Coords,
                                               x2 \in Coords, y2 \in Coords }

----------------------------------------------------------------------------
(* AreaPosIter (Area::pos_iter and Iterator::next).                        *)

\* Area::pos_iter: the iterator starts at pos1.
pos_iter(ar) == [area |-> ar, pos |-> ar.pos1]

\* Option<Pos> as a sequence: <<>> is None, <<p>> is Some(p).
\* AreaPosIter::next: the value returned and the iterator it leaves.
AreaPosIter_next(i) ==
    IF i.pos.y >= i.area.pos2.y
    THEN [ret |-> <<>>, iter |-> i]
    ELSE LET x1 == i.pos.x + 1
         IN  [ret  |-> <<i.pos>>,
              iter |-> IF x1 >= i.area.pos2.x
                       THEN [i EXCEPT !.pos = pos(i.area.pos1.x, i.pos.y + 1)]
                       ELSE [i EXCEPT !.pos = pos(x1, i.pos.y)]]

----------------------------------------------------------------------------
(* Color: premultiplied 8-bit channels, arithmetic in u32, results cast    *)
(* back with `as u8` (the low 8 bits).                                     *)

as_u8(v) == v % 256
color(r, g, b, a) == [r |-> r, g |-> g, b |-> b, a |-> a]
\* #[derive(Default)]: all channels zero.
Color_default == color(0, 0, 0, 0)

rgba_Straight(r, g, b, a) == color(r, g, b, a)

rgba(r, g, b, a) ==
    color(as_u8((r * a) \div 255), as_u8((g * a) \div 255),
          as_u8((b * a) \div 255), a)

rgb(r, g, b) == rgba(r, g, b, 255)
gray(g) == rgb(g, g, g)

\* The outcome of an operation that may panic.
Ok(v) == [ok |-> TRUE, val |-> v]
Panic == [ok |-> FALSE, val |-> Color_default]

\* Color::apply_alpha divides by self.a: a u32 division by zero panics.
Color_apply_alpha(c, alpha) ==
    LET oa == c.a
        na == (c.a * alpha) \div 255
    IN  IF oa = 0 THEN Panic
        ELSE Ok(color(as_u8((c.r * na) \div oa), as_u8((c.g * na) \div oa),
                      as_u8((c.b * na) \div oa), as_u8(na)))

premultiplied_over_ch_BgAlpha(bg, fg, fg_alpha) ==
    as_u8((bg * 255 + fg * (255 - fg_alpha)) \div 255)

premultiplied_over_ch(bg, fg, fg_alpha) ==
    as_u8((fg * 255 + bg * (255 - fg_alpha)) \div 255)

Color_premultiplied_over_SelfAlpha(self, other) ==
    color(premultiplied_over_ch(self.r, other.r, self.a),
          premultiplied_over_ch(self.g, other.g, self.a),
          premultiplied_over_ch(self.b, other.b, self.a),
          premultiplied_over_ch(self.a, other.a, self.a))

\* self.premultiplied_over(other): self is passed as bg, other as fg.
Color_premultiplied_over(self, other) ==
    color(premultiplied_over_ch(self.r, other.r, other.a),
          premultiplied_over_ch(self.g, other.g, other.a),
          premultiplied_over_ch(self.b, other.b, other.a),
          premultiplied_over_ch(self.a, other.a, other.a))

\* gfx2.rs, premultiplied_over_ch: the second revision of the color model
\* (exported as prelude_dev::gfx) adds fg as it is.
gfx2_premultiplied_over_ch(bg, fg, fg_alpha) ==
    as_u8((fg + bg * (255 - fg_alpha)) \div 255)

\* gfx2.rs, Color::premultiplied_over
gfx2_Color_premultiplied_over(self, other) ==
    color(gfx2_premultiplied_over_ch(self.r, other.r, other.a),
          gfx2_premultiplied_over_ch(self.g, other.g, other.a),
          gfx2_premultiplied_over_ch(self.b, other.b, other.a),
          gfx2_premultiplied_over_ch(self.a, other.a, other.a))

saturating_add(x, y) == Min(255, x + y)

Color_additive_over(self, other) ==
    color(saturating_add(self.r, other.r), saturating_add(self.g, other.g),
          saturating_add(self.b, other.b), saturating_add(self.a, other.a))

\* Channel and alpha values the colour machines draw their inputs from.
ChanVals == {0, 127, 128, 255}
AlphaVals == {0, 127, 255}
\* The (r, g, b) arguments ColorSpec passes to rgba and rgb.
RgbArgs == { <<0, 0, 0>>, <<255, 255, 255>>, <<255, 128, 1>> }
\* Arbitrary Color values (the fields of Color are public).
RawColors == { color(r, g, b, a) : r \in ChanVals, g \in ChanVals,
                                   b \in {0, 255}, a \in ChanVals }

----------------------------------------------------------------------------
(* Buffer: a row-major grid of Color and the clipped compose operations.   *)
(* data is a Vec<Color>: index i of the code is element i + 1 here.        *)

Color_BLACK == rgb(0, 0, 0)

Buffer_new_cleared(d, c) == [data |-> [i \in 1..(d.w * d.h) |-> c], dim |-> d]
Buffer_new(d) == Buffer_new_cleared(d, Color_BLACK)
Buffer_area(buf) == area(pos(0, 0), Dim_pos(buf.dim))

\* Option<(Area, Pos)>
NoneAP == [some |-> FALSE, area |-> ZeroArea, pos |-> pos(0, 0)]
SomeAP(ar, p) == [some |-> TRUE, area |-> ar, pos |-> p]

area_apply_NoDstClip(self, other_bounds, other_area, p) ==
    LET clipped == Area_intersection(other_area, other_bounds)
    IN  IF ~clipped.some THEN NoneAP ELSE SomeAP(clipped.val, p)

\* Buffer::area_apply: the source area clipped to the source bounds, and the
\* first corner of the destination area clipped to this buffer.
area_apply(self, other_bounds, other_area, p) ==
    LET clipped == Area_intersection(other_area, other_bounds)
    IN  IF ~clipped.some THEN NoneAP
        ELSE LET dst_area == Area_intersection(
                                Rect_area(rect(p, Area_rect(clipped.val).dim)),
                                Buffer_area(self))
             IN  IF ~dst_area.some THEN NoneAP
                 ELSE SomeAP(clipped.val, dst_area.val.pos1)

\* The two blend closures the library passes to apply: |dst, src| *dst = ...
blend_fn(op, d, s) ==
    IF op = "premultiplied_over" THEN Color_premultiplied_over(d, s)
    ELSE Color_additive_over(d, s)

\* The running state of a compose call: the buffer being written, the
\* blend_fn invocations made so far as (destination index, source index),
\* and whether an index was out of bounds (a Vec index panic) and which.
Running(self) == [buf |-> self, calls |-> <<>>, panic |-> FALSE, bad |-> <<>>]

\* Buffer::apply_unchecked, iteration k of `for y in 0..dim.h { for x in
\* 0..dim.w {..} }` onwards; k = y * dim.w + x. An index outside the Vec
\* panics. Behind area_apply every coordinate is non-negative, so the
\* `as usize` casts change nothing.
RECURSIVE apply_loop(_, _, _, _, _, _)
apply_loop(st, source, src_area, dst_pos, op, k) ==
    LET d == Area_rect(src_area).dim
    IN  IF d.w <= 0 \/ d.h <= 0 \/ k >= d.w * d.h THEN st
        ELSE LET x == k % d.w
                 y == k \div d.w
                 sp == Pos_add(src_area.pos1, pos(x, y))
                 dp == Pos_add(dst_pos, pos(x, y))
                 src_idx == sp.y * source.dim.w + sp.x
                 dst_idx == dp.y * st.buf.dim.w + dp.x
             IN  IF \/ dst_idx < 0 \/ dst_idx >= Len(st.buf.data)
                    \/ src_idx < 0 \/ src_idx >= Len(source.data)
                 THEN [st EXCEPT !.panic = TRUE, !.bad = <<dst_idx, src_idx>>]
                 ELSE apply_loop(
                        [st EXCEPT
                           !.buf.data[dst_idx + 1] =
                               blend_fn(op, @, source.data[src_idx + 1]),
                           !.calls = Append(@, <<dst_idx, src_idx>>)],
                        source, src_area, dst_pos, op, k + 1)

apply_unchecked(self, source, src_area, dst_pos, op) ==
    apply_loop(Running(self), source, src_area, dst_pos, op, 0)

\* Buffer::apply: a silent return when area_apply gives None.
apply(self, source, src_area, dst_pos, op) ==
    LET clip == area_apply(self, Buffer_area(source), src_area, dst_pos)
    IN  IF ~clip.some THEN Running(self)
        ELSE apply_unchecked(self, source, clip.area, clip.pos, op)

Buffer_premultiplied_over(self, source, src_area, dst_pos) ==
    apply(self, source, src_area, dst_pos, "premultiplied_over")

Buffer_additive_over(self, source, src_area, dst_pos) ==
    apply(self, source, src_area, dst_pos, "additive_over")

\* Buffer extents, clear colours and call arguments the model draws from.
Dims == { dim(w, h) : w \in 0..MaxDim, h \in 0..MaxDim }
DstColors == { rgba(255, 255, 255, 128) }
SrcColors == { rgba(255, 0, 0, 128) }
SrcAreas == { area(pos(x1, y1), pos(x2, y2)) :
                x1 \in -1..1, y1 \in -1..1, x2 \in 0..3, y2 \in {0, 2} }
DstPoss == { pos(x, y) : x \in -1..2, y \in -1..1 }

----------------------------------------------------------------------------
(* Glyph drawing: Buffer::draw_font_rect and Buffer::draw_glyph.           *)
(* A Font is the coverage bitmap of the baked font, row-major, `width`     *)
(* bytes per row; a Glyph is {pos, size, offset} in that bitmap.           *)

font_of(width, bitmap) == [width |-> width, bitmap |-> bitmap]
glyph_of(p, size, offset) == [pos |-> p, size |-> size, offset |-> offset]

\* `x as usize + y as usize * w as usize` with i32 x, y and w >= 0, or -1
\* when the expression panics or is no index of any Vec. A negative i32
\* becomes 2^64 + v. With overflow checks (dbg) a sum or product that leaves
\* the usize range panics; without them the arithmetic wraps modulo 2^64,
\* so the result is x + y * w when that is non-negative and past the end of
\* every Vec otherwise.
usize_index(x, y, w, dbg) ==
    IF x >= 0 /\ y >= 0 THEN x + y * w
    ELSE IF dbg THEN (IF y < 0 /\ w = 0 /\ x >= 0 THEN x ELSE -1)
    ELSE (IF x + y * w >= 0 THEN x + y * w ELSE -1)

\* The running state of a draw call: the buffer being written and whether
\* the call has panicked.
Drawing(self) == [buf |-> self, panic |-> FALSE]

\* The loop `for loc in area.pos_iter() {..}` of draw_font_rect from the
\* iterator state `iter` onwards; glyph_loc is the shadowed glyph_loc - loc.
RECURSIVE draw_font_loop(_, _, _, _, _, _)
draw_font_loop(st, iter, glyph_loc, font, c, dbg) ==
    LET n == AreaPosIter_next(iter)
    IN  IF n.ret = <<>> THEN st
        ELSE LET loc == n.ret[1]
                 gl == Pos_add(glyph_loc, loc)
                 fi == usize_index(gl.x, gl.y, font.width, dbg)
                 pi == usize_index(loc.x, loc.y, st.buf.dim.w, dbg)
             IN  IF fi < 0 \/ fi >= Len(font.bitmap)
                 THEN [st EXCEPT !.panic = TRUE]
                 ELSE LET col == Color_apply_alpha(c, font.bitmap[fi + 1])
                      IN  IF ~col.ok \/ pi < 0 \/ pi >= Len(st.buf.data)
                          THEN [st EXCEPT !.panic = TRUE]
                          ELSE draw_font_loop(
                                 [st EXCEPT !.buf.data[pi + 1] =
                                     Color_premultiplied_over(@, col.val)],
                                 n.iter, glyph_loc, font, c, dbg)

\* Buffer::draw_font_rect
draw_font_rect(self, loc, font, glyph_loc, sz, c, dbg) ==
    LET gl == Pos_sub(glyph_loc, loc)
        ar == Area_intersection(Buffer_area(self), Rect_area(rect(loc, sz)))
    IN  IF ~ar.some THEN Drawing(self)
        ELSE draw_font_loop(Drawing(self), pos_iter(ar.val), gl, font, c, dbg)

\* Buffer::draw_glyph
draw_glyph(self, loc, font, glyph, c, dbg) ==
    LET glyph_loc == Pos_sub(glyph.pos, loc)
        sz == glyph.size
    IN  draw_font_rect(self, loc, font, glyph_loc, sz, c, dbg)

----------------------------------------------------------------------------
(* ProgressBar::draw_normal. The f32 progress is a fraction num / den; with *)
(* den a power of two and coordinates this small every f32 operation of    *)
(* the code is exact.                                                      *)

frac(num, den) == [num |-> num, den |-> den]

\* `v as i32` of the fraction n / d, d > 0: the fractional part is dropped.
trunc(n, d) == IF n >= 0 THEN n \div d ELSE -((-n) \div d)

progress_x_NoOrigin(ar, progress) ==
    trunc((ar.pos2.x - ar.pos1.x) * progress.num, progress.den)

\* (area.pos1.x as f32 + (area.pos2.x - area.pos1.x) as f32 * progress) as i32
progress_x(ar, progress) ==
    trunc(ar.pos1.x * progress.den + (ar.pos2.x - ar.pos1.x) * progress.num,
          progress.den)

ProgressBar(ar, progress, fg, bg) ==
    [area |-> ar, progress |-> progress, fg |-> fg, bg |-> bg]

\* The closure of `actual.pos_iter().for_each(..)` from `iter` onwards.
RECURSIVE draw_normal_loop(_, _, _, _, _)
draw_normal_loop(st, iter, px, self, dbg) ==
    LET n == AreaPosIter_next(iter)
    IN  IF n.ret = <<>> THEN st
        ELSE LET p == n.ret[1]
                 c == IF p.x < px THEN self.fg ELSE self.bg
                 ti == usize_index(p.x, p.y, st.buf.dim.w, dbg)
             IN  IF ti < 0 \/ ti >= Len(st.buf.data)
                 THEN [st EXCEPT !.panic = TRUE]
                 ELSE draw_normal_loop(
                        [st EXCEPT !.buf.data[ti + 1] =
                            Color_premultiplied_over(@, c)],
                        n.iter, px, self, dbg)

\* ProgressBar::draw_normal
draw_normal(self, buffer, dbg) ==
    LET actual == Area_intersection(self.area, Buffer_area(buffer))
    IN  IF ~actual.some THEN Drawing(buffer)
        ELSE draw_normal_loop(Drawing(buffer), pos_iter(actual.val),
                              progress_x(self.area, self.progress), self, dbg)

\* The alpha draw_marquee_custom gives column x with an empty frac_fns:
\* frac = (x - pos1.x) / width + progress, less 1.0 when >= 1.0, and
\* (frac * 255.0) as u8. The fraction is kept as n / d with d = width * den.
marquee_alpha(self, x) ==
    LET width == self.area.pos2.x - self.area.pos1.x
        d == width * self.progress.den
        n == (x - self.area.pos1.x) * self.progress.den + self.progress.num * width
        m == IF n >= d THEN n - d ELSE n
    IN  Max(0, Min(255, trunc(m * 255, d)))

\* The closure of draw_marquee_custom from `iter` onwards.
RECURSIVE draw_marquee_loop(_, _, _, _)
draw_marquee_loop(st, iter, self, dbg) ==
    LET n == AreaPosIter_next(iter)
    IN  IF n.ret = <<>> THEN st
        ELSE LET p == n.ret[1]
                 c == Color_apply_alpha(self.fg, marquee_alpha(self, p.x))
                 ti == usize_index(p.x, p.y, st.buf.dim.w, dbg)
             IN  IF ~c.ok \/ ti < 0 \/ ti >= Len(st.buf.data)
                 THEN [st EXCEPT !.panic = TRUE]
                 ELSE draw_marquee_loop(
                        [st EXCEPT !.buf.data[ti + 1] =
                            Color_premultiplied_over(
                               @, Color_premultiplied_over(self.bg, c.val))],
                        n.iter, self, dbg)

\* ProgressBar::draw_marquee_custom(buffer, &[])
draw_marquee_custom(self, buffer, dbg) ==
    LET actual == Area_intersection(self.area, Buffer_area(buffer))
    IN  IF ~actual.some THEN Drawing(buffer)
        ELSE draw_marquee_loop(Drawing(buffer), pos_iter(actual.val), self, dbg)

----------------------------------------------------------------------------
(* Glyph layout: StraightGlyphCoordIterator and LineWrapGlyphCoordIterator *)
(* over the GlyphResult items of a font lookup.                            *)

NoGlyph == glyph_of(pos(0, 0), dim(0, 0), pos(0, 0))
NoChar == ""

\* GlyphResult::Unknown(ch), Single(glyph, ch), Double(glyph, [ch1, ch2])
Unknown(ch) == [kind |-> "Unknown", glyph |-> NoGlyph, ch1 |-> ch, ch2 |-> NoChar]
Single(glyph, ch) == [kind |-> "Single", glyph |-> glyph, ch1 |-> ch, ch2 |-> NoChar]
Double(glyph, ch1, ch2) == [kind |-> "Double", glyph |-> glyph, ch1 |-> ch1, ch2 |-> ch2]

\* GlyphCoordResult::Handled(GlyphCoord {..}) and Unhandled(ch); char2 is
\* NoChar for None.
Handled(glyph_pos, glyph_dim, offset, char1, char2) ==
    [handled |-> TRUE, glyph_pos |-> glyph_pos, glyph_dim |-> glyph_dim,
     offset |-> offset, char1 |-> char1, char2 |-> char2]
Unhandled(ch) ==
    [handled |-> FALSE, glyph_pos |-> pos(0, 0), glyph_dim |-> dim(0, 0),
     offset |-> pos(0, 0), char1 |-> ch, char2 |-> NoChar]

\* StraightGlyphCoordIterator::new
StraightGlyphCoordIterator(items) == [iter |-> items, off |-> pos(0, 0)]

Straight_next_NoAdvance(self) ==
    IF self.iter = <<>> THEN [ret |-> <<>>, self |-> self]
    ELSE LET item == Head(self.iter)
             rest == [self EXCEPT !.iter = Tail(@)]
             co == Pos_add(self.off, item.glyph.offset)
         IN  IF item.kind = "Unknown"
             THEN [ret |-> <<Unhandled(item.ch1)>>, self |-> rest]
             ELSE [ret  |-> <<Handled(item.glyph.pos, item.glyph.size, co,
                                      item.ch1, item.ch2)>>,
                   self |-> rest]

\* StraightGlyphCoordIterator::next: the value returned (<<>> is None) and
\* the iterator it leaves.
Straight_next(self) ==
    IF self.iter = <<>> THEN [ret |-> <<>>, self |-> self]
    ELSE LET item == Head(self.iter)
             rest == [self EXCEPT !.iter = Tail(@)]
             gp == item.glyph.pos
             gd == item.glyph.size
             go == item.glyph.offset
             co == Pos_add(self.off, go)
         IN  IF item.kind = "Unknown"
             THEN [ret |-> <<Unhandled(item.ch1)>>, self |-> rest]
             ELSE [ret  |-> <<Handled(gp, gd, co, item.ch1, item.ch2)>>,
                   self |-> [rest EXCEPT !.off.x = @ + gd.w]]

\* StraightGlyphCoordIterator::line_wrap
line_wrap(self, width, height) == [iter |-> self, width |-> width, height |-> height]

\* LineWrapGlyphCoordIterator::next, `return self.next()` included: the
\* value returned, the iterator it leaves, the cursor (iter.off) the item
\* behind the returned value was laid out from, and the number of input
\* items the call has taken, `eaten` of them before this point.
RECURSIVE LineWrap_next(_, _)
LineWrap_next(self, eaten) ==
    LET n == Straight_next(self.iter)
        gc == n.ret[1]
    IN  IF n.ret = <<>>
        THEN [ret |-> <<>>, self |-> [self EXCEPT !.iter = n.self],
              cursor |-> self.iter.off, eaten |-> eaten]
        ELSE IF gc.handled
             THEN IF gc.offset.x + gc.glyph_dim.w > self.width
                  THEN [ret  |-> <<[gc EXCEPT !.offset.x = 0,
                                              !.offset.y = @ + self.height]>>,
                        self |-> [self EXCEPT !.iter = [n.self EXCEPT
                                               !.off.x = gc.glyph_dim.w,
                                               !.off.y = @ + self.height]],
                        cursor |-> self.iter.off, eaten |-> eaten + 1]
                  ELSE [ret |-> n.ret, self |-> [self EXCEPT !.iter = n.self],
                        cursor |-> self.iter.off, eaten |-> eaten + 1]
             ELSE IF gc.char1 = "\n"
                  THEN LineWrap_next(
                         [self EXCEPT !.iter = [n.self EXCEPT
                                        !.off.x = 0, !.off.y = @ + self.height]],
                         eaten + 1)
                  ELSE [ret |-> n.ret, self |-> [self EXCEPT !.iter = n.self],
                        cursor |-> self.iter.off, eaten |-> eaten + 1]

----------------------------------------------------------------------------
(* Screen: the static SCREEN Buffer and its presentation.                  *)

\* static mut SCREEN: Buffer = Buffer { data: Vec::new(), dim: dim(0, 0) }
SCREEN == [data |-> <<>>, dim |-> dim(0, 0)]

Screen_init_Transposed(res) == Buffer_new(dim(res.h, res.w))

\* Screen::init with `res` the resolution the graphics output reports.
Screen_init(res) == Buffer_new(dim(res.w, res.h))

Screen_get_Unchecked(scr, dbg) == [ok |-> TRUE, buf |-> scr]

\* Screen::get: debug_assert!(SCREEN.dim.w != 0) is checked only in a build
\* with debug assertions; ok is FALSE when the assertion fails.
Screen_get(scr, dbg) == [ok |-> ~(dbg /\ scr.dim.w = 0), buf |-> scr]

\* Screen::rect
Screen_rect(scr, dbg) ==
    [ok |-> Screen_get(scr, dbg).ok, rect |-> rect(pos(0, 0), scr.dim)]

\* Screen::present: the BltOp::BufferToVideo the call hands to gop.blt, as
\* <<op>>, or <<>> when Screen::get has failed. For the non-negative
\* coordinates and extents used here `as usize` changes nothing.
Screen_present(scr, r, dbg) ==
    IF ~Screen_get(scr, dbg).ok THEN <<>>
    ELSE <<[src |-> pos(r.pos.x, r.pos.y), px_stride |-> scr.dim.w,
            dest |-> pos(r.pos.x, r.pos.y), dims |-> dim(r.dim.w, r.dim.h)]>>

\* Buffer::clear
Buffer_clear(self, c) == [self EXCEPT !.data = [i \in 1..Len(@) |-> c]]

----------------------------------------------------------------------------
(* Idle values: what the variables of a machine hold in the specifications *)
(* of the other machines.                                                  *)

NoOp == [op |-> "none", self |-> Color_default, other |-> Color_default,
         alpha |-> 0, ok |-> TRUE, out |-> Color_default]

IdleArea  == /\ areaA = ZeroArea /\ areaB = ZeroArea
             /\ isect = Pending /\ norm = Pending
IdleIter  == /\ it = pos_iter(ZeroArea) /\ itDone = FALSE /\ yielded = <<>>
IdleColor == /\ c1 = Color_default /\ c2 = Color_default
             /\ lastOp = NoOp /\ nops = 0

NoCall == [op |-> "none", src_area |-> ZeroArea, dst_pos |-> pos(0, 0),
           panic |-> FALSE, bad |-> <<>>]
IdleBuffer == /\ dst = Buffer_new(dim(0, 0)) /\ src = Buffer_new(dim(0, 0))
              /\ dstBefore = Buffer_new(dim(0, 0))
              /\ call = NoCall /\ calls = <<>>

NoLayout == [kind |-> "none", input |-> <<>>,
             it |-> line_wrap(StraightGlyphCoordIterator(<<>>), 0, 0)]
IdleLayout == layout = NoLayout /\ trace = <<>>

NoDraw == [op |-> "none", loc |-> pos(0, 0), glyph_loc |-> pos(0, 0),
           sz |-> dim(0, 0), color |-> Color_default, glyph |-> NoGlyph,
           bar |-> ProgressBar(ZeroArea, frac(0, 1), Color_default, Color_default),
           panic |-> FALSE]
IdleDraw == draw = NoDraw

NoScrCall == [op |-> "none", inited |-> FALSE, ok |-> TRUE,
              arg |-> rect(pos(0, 0), dim(0, 0)), ret |-> rect(pos(0, 0), dim(0, 0)),
              blt |-> <<>>, before |-> SCREEN]
IdleScreen == /\ screen = SCREEN /\ scrCall = NoScrCall
              /\ inited = FALSE /\ steps = 0

IdleExt == IdleLayout /\ IdleDraw /\ IdleScreen /\ debug = FALSE

----------------------------------------------------------------------------
(* AreaSpec: two Areas, and the methods of Area applied to them.           *)

AreaInit ==
    /\ areaA \in AllAreas /\ areaB \in AllAreas
    /\ isect = Pending /\ norm = Pending
    /\ IdleIter /\ IdleColor /\ IdleBuffer /\ panicked = FALSE /\ IdleExt

\* areaA.intersection(areaB)
Intersection ==
    /\ isect = Pending
    /\ isect' = Area_intersection(areaA, areaB)
    /\ UNCHANGED <<areaA, areaB, norm, iterVars, colorVars, bufVars, panicked, extVars>>

\* areaA.normalize()
Normalize ==
    /\ norm = Pending
    /\ norm' = Some(Area_normalize(areaA))
    /\ UNCHANGED <<areaA, areaB, isect, iterVars, colorVars, bufVars, panicked, extVars>>

AreaNext == Intersection \/ Normalize
AreaSpec == AreaInit /\ [][AreaNext]_vars

----------------------------------------------------------------------------
(* IterSpec: an AreaPosIter over some Area, one call of next per step.     *)

IterInit ==
    /\ \E ar \in AllAreas : it = pos_iter(ar)
    /\ itDone = FALSE /\ yielded = <<>>
    /\ IdleArea /\ IdleColor /\ IdleBuffer /\ panicked = FALSE /\ IdleExt

\* AreaPosIter::next returning Some(pos)
IterNextSome ==
    /\ ~itDone
    /\ AreaPosIter_next(it).ret # <<>>
    /\ yielded' = yielded \o AreaPosIter_next(it).ret
    /\ it' = AreaPosIter_next(it).iter
    /\ UNCHANGED <<itDone, areaVars, colorVars, bufVars, panicked, extVars>>

\* AreaPosIter::next returning None
IterNextNone ==
    /\ ~itDone
    /\ AreaPosIter_next(it).ret = <<>>
    /\ itDone' = TRUE
    /\ it' = AreaPosIter_next(it).iter
    /\ UNCHANGED <<yielded, areaVars, colorVars, bufVars, panicked, extVars>>

IterNext == IterNextSome \/ IterNextNone
IterSpec == IterInit /\ [][IterNext]_vars

----------------------------------------------------------------------------
(* ColorSpec: colors are built by rgba, rgb and gray and combined by the   *)
(* operators of Color, at most MaxOps operator applications in a row; the  *)
(* result of an operator may be an operand of the next ones.               *)
(* lastOp records the name of the last operator only.                      *)

ColorInit ==
    /\ c1 = Color_default /\ c2 = Color_default
    /\ lastOp = NoOp /\ nops = 0
    /\ IdleArea /\ IdleIter /\ IdleBuffer /\ panicked = FALSE /\ IdleExt

Named(name) == [NoOp EXCEPT !.op = name]

\* c1 = rgba(r, g, b, a) or c2 = rgba(r, g, b, a)
DoRgba ==
    /\ ~panicked
    /\ \E t \in RgbArgs, a \in AlphaVals :
          \/ c1' = rgba(t[1], t[2], t[3], a) /\ c2' = c2
          \/ c2' = rgba(t[1], t[2], t[3], a) /\ c1' = c1
    /\ UNCHANGED <<lastOp, nops, areaVars, iterVars, bufVars, panicked, extVars>>

\* c2 = rgb(r, g, b)
DoRgb ==
    /\ ~panicked
    /\ \E t \in RgbArgs : c2' = rgb(t[1], t[2], t[3])
    /\ UNCHANGED <<c1, lastOp, nops, areaVars, iterVars, bufVars, panicked, extVars>>

\* c2 = gray(g)
DoGray ==
    /\ ~panicked
    /\ \E g \in ChanVals : c2' = gray(g)
    /\ UNCHANGED <<c1, lastOp, nops, areaVars, iterVars, bufVars, panicked, extVars>>

\* `let` binds the value an operator returned to either name.
Bind(v) == \/ c1' = v /\ c2' = c2
           \/ c2' = v /\ c1' = c1

\* c1.apply_alpha(alpha); a panic leaves no new color.
DoApplyAlpha ==
    /\ ~panicked /\ nops < MaxOps
    /\ \E alpha \in AlphaVals :
          LET res == Color_apply_alpha(c1, alpha)
          IN  /\ IF res.ok THEN Bind(res.val) ELSE UNCHANGED <<c1, c2>>
              /\ panicked' = ~res.ok
    /\ lastOp' = Named("apply_alpha")
    /\ nops' = nops + 1
    /\ UNCHANGED <<areaVars, iterVars, bufVars, extVars>>

\* c1.premultiplied_over(c2) or c2.premultiplied_over(c1)
DoPremultipliedOver ==
    /\ ~panicked /\ nops < MaxOps
    /\ \/ Bind(Color_premultiplied_over(c1, c2))
       \/ Bind(Color_premultiplied_over(c2, c1))
    /\ lastOp' = Named("premultiplied_over")
    /\ nops' = nops + 1
    /\ UNCHANGED <<areaVars, iterVars, bufVars, panicked, extVars>>

\* c1.additive_over(c2)
DoAdditiveOver ==
    /\ ~panicked /\ nops < MaxOps
    /\ Bind(Color_additive_over(c1, c2))
    /\ lastOp' = Named("additive_over")
    /\ nops' = nops + 1
    /\ UNCHANGED <<areaVars, iterVars, bufVars, panicked, extVars>>

ColorNext == \/ DoRgba \/ DoRgb \/ DoGray
             \/ DoApplyAlpha \/ DoPremultipliedOver \/ DoAdditiveOver
ColorSpec == ColorInit /\ [][ColorNext]_vars

----------------------------------------------------------------------------
(* BlendSpec: one call of an operator of Color on arbitrary Color values;  *)
(* lastOp records the receiver, the argument and the result.               *)

BlendInit ==
    /\ c1 \in RawColors /\ c2 \in RawColors
    /\ lastOp = NoOp /\ nops = 0
    /\ IdleArea /\ IdleIter /\ IdleBuffer /\ panicked = FALSE /\ IdleExt

\* c1.apply_alpha(alpha)
CallApplyAlpha ==
    /\ lastOp = NoOp
    /\ \E alpha \in AlphaVals :
          LET res == Color_apply_alpha(c1, alpha)
          IN  /\ lastOp' = [op |-> "apply_alpha", self |-> c1, other |-> Color_default,
                            alpha |-> alpha, ok |-> res.ok, out |-> res.val]
              /\ panicked' = ~res.ok
    /\ nops' = nops + 1
    /\ UNCHANGED <<c1, c2, areaVars, iterVars, bufVars, extVars>>

\* c1.premultiplied_over(c2)
CallPremultipliedOver ==
    /\ lastOp = NoOp
    /\ lastOp' = [op |-> "premultiplied_over", self |-> c1, other |-> c2,
                  alpha |-> 0, ok |-> TRUE, out |-> Color_premultiplied_over(c1, c2)]
    /\ nops' = nops + 1
    /\ UNCHANGED <<c1, c2, areaVars, iterVars, bufVars, panicked, extVars>>

\* c1.additive_over(c2)
CallAdditiveOver ==
    /\ lastOp = NoOp
    /\ lastOp' = [op |-> "additive_over", self |-> c1, other |-> c2,
                  alpha |-> 0, ok |-> TRUE, out |-> Color_additive_over(c1, c2)]
    /\ nops' = nops + 1
    /\ UNCHANGED <<c1, c2, areaVars, iterVars, bufVars, panicked, extVars>>

\* c1.premultiplied_over(c2) with the Color of gfx2
CallGfx2PremultipliedOver ==
    /\ lastOp = NoOp
    /\ lastOp' = [op |-> "gfx2_premultiplied_over", self |-> c1, other |-> c2,
                  alpha |-> 0, ok |-> TRUE,
                  out |-> gfx2_Color_premultiplied_over(c1, c2)]
    /\ nops' = nops + 1
    /\ UNCHANGED <<c1, c2, areaVars, iterVars, bufVars, panicked, extVars>>

BlendNext == \/ CallApplyAlpha \/ CallPremultipliedOver \/ CallAdditiveOver
             \/ CallGfx2PremultipliedOver
BlendSpec == BlendInit /\ [][BlendNext]_vars

----------------------------------------------------------------------------
(* Spec: a destination and a source Buffer of any extents, and one compose *)
(* call of the destination with the source.                                *)

Init ==
    /\ \E d \in Dims, c \in DstColors : dst = Buffer_new_cleared(d, c)
    /\ \E d \in Dims, c \in SrcColors : src = Buffer_new_cleared(d, c)
    /\ dstBefore = dst
    /\ call = NoCall /\ calls = <<>>
    /\ IdleArea /\ IdleIter /\ IdleColor /\ panicked = FALSE /\ IdleExt

\* The destination after a compose call that ran as `st`.
Composed(name, src_area, dst_pos, st) ==
    /\ dst' = st.buf
    /\ dstBefore' = dst
    /\ calls' = st.calls
    /\ call' = [op |-> name, src_area |-> src_area, dst_pos |-> dst_pos,
                panic |-> st.panic, bad |-> st.bad]
    /\ panicked' = st.panic
    /\ UNCHANGED <<src, areaVars, iterVars, colorVars, extVars>>

\* dst.premultiplied_over(&src, src_area, dst_pos)
PremultipliedOver ==
    /\ call = NoCall
    /\ \E sa \in SrcAreas, dp \in DstPoss :
          Composed("premultiplied_over", sa, dp,
                   Buffer_premultiplied_over(dst, src, sa, dp))

\* dst.additive_over(&src, src_area, dst_pos)
AdditiveOver ==
    /\ call = NoCall
    /\ \E sa \in SrcAreas, dp \in DstPoss :
          Composed("additive_over", sa, dp,
                   Buffer_additive_over(dst, src, sa, dp))

Next == PremultipliedOver \/ AdditiveOver
Spec == Init /\ [][Next]_vars

----------------------------------------------------------------------------
(* DrawSpec: a Buffer of any extents and one call of draw_font_rect,       *)
(* draw_glyph or ProgressBar::draw_normal on it, in a build with or        *)
(* without debug assertions and overflow checks.                           *)

\* The font: a 3 x 3 coverage bitmap and three glyphs inside it.
TheFont == font_of(3, <<0, 127, 255,
                        255, 0, 127,
                        127, 255, 255>>)
Glyphs == { glyph_of(pos(0, 0), dim(2, 2), pos(0, 0)),
            glyph_of(pos(1, 1), dim(2, 2), pos(0, 1)),
            glyph_of(pos(2, 0), dim(1, 3), pos(1, 0)) }

\* The arguments the draw calls are made with.
Locs == { pos(x, y) : x \in -1..1, y \in -1..1 }
GlyphLocs == { pos(0, 0), pos(1, 1), pos(2, 0), pos(2, 2) }
GlyphSizes == { dim(w, h) : w \in 0..2, h \in 0..2 }
DrawColors == { rgba(255, 255, 255, 255), rgba(255, 0, 0, 128), rgba(0, 0, 0, 0) }
Progresses == { frac(0, 1), frac(1, 4), frac(1, 2), frac(3, 4), frac(1, 1) }
BarAreas == { area(pos(x1, y1), pos(x2, y2)) :
                x1 \in -2..1, y1 \in -1..0, x2 \in 0..3, y2 \in 1..2 }
Bars == { ProgressBar(ar, p, rgba(255, 0, 0, 128), rgba(0, 0, 255, 255)) :
            ar \in BarAreas, p \in Progresses }

DrawInit ==
    /\ \E d \in Dims, c \in DstColors : dst = Buffer_new_cleared(d, c)
    /\ src = Buffer_new(dim(0, 0))
    /\ dstBefore = dst
    /\ call = NoCall /\ calls = <<>>
    /\ draw = NoDraw
    /\ debug \in BOOLEAN
    /\ IdleArea /\ IdleIter /\ IdleColor /\ IdleLayout /\ IdleScreen
    /\ panicked = FALSE

\* The destination after the draw call `rec` that ran as `st`.
Drawn(rec, st) ==
    /\ dst' = st.buf
    /\ dstBefore' = dst
    /\ draw' = [rec EXCEPT !.panic = st.panic]
    /\ panicked' = st.panic
    /\ UNCHANGED <<src, call, calls, areaVars, iterVars, colorVars,
                   layoutVars, screenVars, debug>>

\* dst.draw_font_rect(loc, &font, glyph_loc, sz, color)
DrawFontRect ==
    /\ draw = NoDraw
    /\ \E loc \in Locs, gl \in GlyphLocs, sz \in GlyphSizes, c \in DrawColors :
          Drawn([NoDraw EXCEPT !.op = "draw_font_rect", !.loc = loc,
                               !.glyph_loc = gl, !.sz = sz, !.color = c],
                draw_font_rect(dst, loc, TheFont, gl, sz, c, debug))

\* dst.draw_glyph(loc, &font, glyph, color)
DrawGlyph ==
    /\ draw = NoDraw
    /\ \E loc \in Locs, g \in Glyphs, c \in DrawColors :
          Drawn([NoDraw EXCEPT !.op = "draw_glyph", !.loc = loc,
                               !.glyph = g, !.color = c],
                draw_glyph(dst, loc, TheFont, g, c, debug))

\* bar.draw_normal(&mut dst)
DrawNormal ==
    /\ draw = NoDraw
    /\ \E bar \in Bars :
          Drawn([NoDraw EXCEPT !.op = "draw_normal", !.bar = bar],
                draw_normal(bar, dst, debug))

DrawNext == DrawFontRect \/ DrawGlyph \/ DrawNormal
DrawSpec == DrawInit /\ [][DrawNext]_vars

----------------------------------------------------------------------------
(* LayoutSpec: a straight or a line-wrap layout over the GlyphResult items *)
(* of a text of at most MaxInput characters, one call of next per step     *)
(* until next returns None.                                                *)

\* The glyphs of the font as the layout reads them: widths 1 and 2, with
\* and without a render offset.
LayoutGlyphs == { glyph_of(pos(0, 0), dim(1, 1), pos(0, 0)),
                  glyph_of(pos(1, 0), dim(2, 1), pos(1, 0)),
                  glyph_of(pos(0, 1), dim(2, 2), pos(-1, 1)) }
\* What the font lookup may report for a character: no glyph, or a glyph;
\* the baked range of a font may or may not hold the newline character.
Items == { Unknown("?"), Unknown("\n") }
           \cup { Single(g, "a") : g \in LayoutGlyphs }
           \cup { Single(glyph_of(pos(0, 0), dim(1, 1), pos(0, 0)), "\n"),
                  Double(glyph_of(pos(1, 0), dim(2, 1), pos(1, 0)), "f", "i") }
Inputs == UNION { [1..n -> Items] : n \in 0..MaxInput }
LineWidths == 0..3
LineHeights == {1, 3}

\* wrapped_height(text, line_width, line_height): the wrap layout is run to
\* completion; the result is the maximum vertical cursor plus line_height.
RECURSIVE wrapped_height_from(_, _)
wrapped_height_from(self, maxy) ==
    LET n == LineWrap_next(self, 0)
        m == Max(maxy, n.self.iter.off.y)
    IN  IF n.ret = <<>> THEN m + self.height
        ELSE wrapped_height_from(n.self, m)

wrapped_height(items, width, height) ==
    wrapped_height_from(line_wrap(StraightGlyphCoordIterator(items), width, height), 0)

LayoutInit ==
    /\ \E items \in Inputs :
          \/ layout = [kind |-> "straight", input |-> items,
                       it |-> line_wrap(StraightGlyphCoordIterator(items), 0, 0)]
          \/ \E w \in LineWidths, h \in LineHeights :
                layout = [kind |-> "line_wrap", input |-> items,
                          it |-> line_wrap(StraightGlyphCoordIterator(items), w, h)]
    /\ trace = <<>>
    /\ IdleArea /\ IdleIter /\ IdleColor /\ IdleBuffer /\ IdleDraw /\ IdleScreen
    /\ debug = FALSE /\ panicked = FALSE

\* next has returned None.
Ended == trace # <<>> /\ trace[Len(trace)].ret = <<>>

\* One call of next that ran as `n` from cursor layout.it.iter.off.
Called(n, cursor, eaten) ==
    /\ trace' = Append(trace, [ret |-> n.ret, before |-> layout.it.iter.off,
                               cursor |-> cursor, after |-> n.self.off,
                               eaten |-> eaten])
    /\ UNCHANGED <<areaVars, iterVars, colorVars, bufVars, panicked, draw,
                   screenVars, debug>>

\* StraightGlyphCoordIterator::next
StraightNext ==
    /\ layout.kind = "straight" /\ ~Ended
    /\ LET n == Straight_next(layout.it.iter)
       IN  /\ layout' = [layout EXCEPT !.it.iter = n.self]
           /\ Called(n, layout.it.iter.off, IF n.ret = <<>> THEN 0 ELSE 1)

\* LineWrapGlyphCoordIterator::next
LineWrapNext ==
    /\ layout.kind = "line_wrap" /\ ~Ended
    /\ LET n == LineWrap_next(layout.it, 0)
       IN  /\ layout' = [layout EXCEPT !.it = n.self]
           /\ Called([ret |-> n.ret, self |-> n.self.iter], n.cursor, n.eaten)

LayoutNext == StraightNext \/ LineWrapNext
LayoutSpec == LayoutInit /\ [][LayoutNext]_vars

----------------------------------------------------------------------------
(* ScreenSpec: the life of the static SCREEN Buffer. The program makes at  *)
(* most MaxCalls calls: Screen::init / init_mode, Screen::get / rect /     *)
(* present, drawing calls on Screen::get(), and Buffer::new / new_cleared  *)
(* for the source Buffer it composes onto the screen. A failed assertion,  *)
(* a failed unwrap or an index panic ends the program.                     *)

\* Resolutions the graphics output may report, and the modes it offers.
Resolutions == { dim(0, 0), dim(2, 1), dim(1, 2) }
Modes == { dim(2, 2) }
\* Rectangles the program presents, besides Screen::rect().
PresentRects == { rect(pos(0, 0), dim(1, 1)), rect(pos(1, 0), dim(2, 2)) }
\* Arguments of the drawing calls.
ScrColors == { rgba(255, 0, 0, 128) }
ScrSrcAreas == { area(pos(0, 0), pos(2, 2)), area(pos(-1, 0), pos(3, 1)) }
ScrDstPoss == { pos(0, 0), pos(1, 0) }
ScrGlyphArgs == { <<pos(0, 0), pos(0, 0), dim(2, 2)>>, <<pos(1, 0), pos(1, 1), dim(2, 2)>> }
ScrBars == { ProgressBar(area(pos(-1, 0), pos(3, 2)), frac(1, 2),
                         rgba(255, 0, 0, 128), rgba(0, 0, 255, 255)),
             ProgressBar(area(pos(0, 0), pos(2, 1)), frac(1, 4),
                         rgba(0, 255, 0, 255), rgba(0, 0, 0, 0)) }
SrcDims == { dim(1, 2), dim(2, 1) }

ScreenInit ==
    /\ screen = SCREEN /\ scrCall = NoScrCall /\ inited = FALSE /\ steps = 0
    /\ debug \in BOOLEAN
    /\ dst = Buffer_new(dim(0, 0)) /\ src = Buffer_new(dim(0, 0))
    /\ dstBefore = Buffer_new(dim(0, 0)) /\ call = NoCall /\ calls = <<>>
    /\ IdleArea /\ IdleIter /\ IdleColor /\ IdleLayout /\ IdleDraw
    /\ panicked = FALSE

\* A call may be made: the program has not panicked and has calls left.
MayCall == ~panicked /\ steps < MaxCalls

\* The record of the call `name` made now.
ScrCalled(name, ok, arg, ret, blt) ==
    /\ scrCall' = [op |-> name, inited |-> inited, ok |-> ok, arg |-> arg,
                   ret |-> ret, blt |-> blt, before |-> screen]
    /\ steps' = steps + 1
    /\ UNCHANGED <<areaVars, iterVars, colorVars, dst, dstBefore, call, calls,
                   layoutVars, draw, debug>>

\* Screen::init(); the graphics output reports the resolution res.
DoScreenInit ==
    /\ MayCall
    /\ \E res \in Resolutions :
          /\ screen' = Screen_init(res)
          /\ ScrCalled("init", TRUE, rect(pos(0, 0), res), rect(pos(0, 0), res), <<>>)
    /\ inited' = TRUE
    /\ UNCHANGED <<src, panicked>>

\* Screen::init_mode(&mode): set_mode(..).unwrap() and Screen::init(); the
\* firmware may refuse the mode.
DoScreenInitMode ==
    /\ MayCall
    /\ \E mode \in Modes, accepted \in BOOLEAN :
          /\ screen' = IF accepted THEN Screen_init(mode) ELSE screen
          /\ inited' = (inited \/ accepted)
          /\ panicked' = ~accepted
          /\ ScrCalled("init_mode", accepted, rect(pos(0, 0), mode),
                       rect(pos(0, 0), mode), <<>>)
    /\ UNCHANGED src

\* Screen::get()
DoScreenGet ==
    /\ MayCall
    /\ LET g == Screen_get(screen, debug)
       IN  /\ panicked' = ~g.ok
           /\ ScrCalled("get", g.ok, NoScrCall.arg, NoScrCall.ret, <<>>)
    /\ UNCHANGED <<screen, inited, src>>

\* Screen::rect()
DoScreenRect ==
    /\ MayCall
    /\ LET r == Screen_rect(screen, debug)
       IN  /\ panicked' = ~r.ok
           /\ ScrCalled("rect", r.ok, NoScrCall.arg, r.rect, <<>>)
    /\ UNCHANGED <<screen, inited, src>>

\* Screen::present(rect) with a rectangle of the program or Screen::rect()
\* (in a build where that call returns); gop.blt(..).unwrap() panics when
\* the firmware refuses the transfer.
DoScreenPresent ==
    /\ MayCall
    /\ \E r \in PresentRects \cup { rect(pos(0, 0), screen.dim) },
          done \in BOOLEAN :
          LET b == Screen_present(screen, r, debug)
          IN  /\ (r \notin PresentRects) => Screen_get(screen, debug).ok
              /\ panicked' = (b = <<>> \/ ~done)
              /\ ScrCalled("present", b # <<>>, r, NoScrCall.ret, b)
    /\ UNCHANGED <<screen, inited, src>>

\* A drawing call on Screen::get() that runs as `st` when get returns.
ScrDrawn(name, st) ==
    LET g == Screen_get(screen, debug)
    IN  /\ screen' = IF g.ok THEN st.buf ELSE screen
        /\ panicked' = (~g.ok \/ st.panic)
        /\ ScrCalled(name, g.ok, NoScrCall.arg, NoScrCall.ret, <<>>)
        /\ UNCHANGED <<inited, src>>

\* Screen::get().clear(color)
DoClear ==
    /\ MayCall
    /\ \E c \in ScrColors : ScrDrawn("clear", Drawing(Buffer_clear(screen, c)))

\* Screen::get().premultiplied_over(&src, src_area, dst_pos) and
\* Screen::get().additive_over(&src, src_area, dst_pos), both through apply
DoCompose ==
    /\ MayCall
    /\ \E sa \in ScrSrcAreas, dp \in ScrDstPoss :
          \/ ScrDrawn("premultiplied_over", Buffer_premultiplied_over(screen, src, sa, dp))
          \/ ScrDrawn("additive_over", Buffer_additive_over(screen, src, sa, dp))

\* Screen::get().draw_font_rect(..) and Screen::get().draw_glyph(..)
DoDrawFont ==
    /\ MayCall
    /\ \E a \in ScrGlyphArgs, c \in ScrColors :
          \/ ScrDrawn("draw_font_rect",
                      draw_font_rect(screen, a[1], TheFont, a[2], a[3], c, debug))
          \/ ScrDrawn("draw_glyph",
                      draw_glyph(screen, a[1], TheFont,
                                 glyph_of(a[2], a[3], pos(0, 0)), c, debug))

\* bar.draw_normal(Screen::get()) and bar.draw_marquee_custom(Screen::get(), &[])
DoDrawBar ==
    /\ MayCall
    /\ \E bar \in ScrBars :
          \/ ScrDrawn("draw_normal", draw_normal(bar, screen, debug))
          \/ ScrDrawn("draw_marquee_custom", draw_marquee_custom(bar, screen, debug))

\* src = Buffer::new(dim) or src = Buffer::new_cleared(dim, color)
DoNewBuffer ==
    /\ MayCall
    /\ \E d \in SrcDims :
          \/ src' = Buffer_new(d)
          \/ \E c \in ScrColors : src' = Buffer_new_cleared(d, c)
    /\ ScrCalled("new", TRUE, NoScrCall.arg, NoScrCall.ret, <<>>)
    /\ UNCHANGED <<screen, inited, panicked>>

ScreenNext == \/ DoScreenInit \/ DoScreenInitMode
              \/ DoScreenGet \/ DoScreenRect \/ DoScreenPresent
              \/ DoClear \/ DoCompose \/ DoDrawFont \/ DoDrawBar \/ DoNewBuffer
ScreenSpec == ScreenInit /\ [][ScreenNext]_vars

----------------------------------------------------------------------------
(* Point sets, used to state the claims independently of the code.         *)

\* The integer points of the half-open box [pos1, pos2) of an Area.
Grid == { pos(x, y) : x \in -2..(MaxCoord + MaxDim + 1),
                      y \in -2..(MaxCoord + MaxDim + 1) }
Points(ar) == { p \in Grid : /\ ar.pos1.x <= p.x /\ p.x < ar.pos2.x
                             /\ ar.pos1.y <= p.y /\ p.y < ar.pos2.y }

----------------------------------------------------------------------------
(* Claims about Buffer::apply (Spec).                                      *)

\* The pixels of a buffer, and the Vec index of a pixel.
Pixels(buf) == Points(Buffer_area(buf))
Index(buf, p) == p.y * buf.dim.w + p.x

\* src_area clipped to the source buffer, as a set of source pixels, and the
\* origin (top-left pixel) of that set when it is not empty.
ClippedSrc == Points(call.src_area) \cap Pixels(src)
ClippedOrigin ==
    CHOOSE o \in ClippedSrc : \A p \in ClippedSrc : o.x <= p.x /\ o.y <= p.y

\* The source pixel that destination pixel d is paired with when the clipped
\* source region is placed with its origin at dst_pos.
SrcOf(d) == Pos_add(ClippedOrigin, Pos_sub(d, call.dst_pos))

\* The destination pixels the placed region covers.
Region ==
    IF ClippedSrc = {} THEN {}
    ELSE { d \in Pixels(dstBefore) : SrcOf(d) \in ClippedSrc }

\* C1: apply completes without an out-of-bounds access: every source index
\* and every destination index it computes lies inside the buffer's storage.
C1_ApplyInBounds ==
    call.op # "none" =>
        /\ ~call.panic
        /\ \A i \in 1..Len(calls) :
              /\ calls[i][1] \in 0..(Len(dst.data) - 1)
              /\ calls[i][2] \in 0..(Len(src.data) - 1)

\* C2: apply invokes blend_fn exactly once for each destination pixel d of
\* the region (src_area clipped to the source, placed at dst_pos, clipped to
\* the destination), pairing d with the source pixel at clipped origin +
\* d - dst_pos, and leaves every destination pixel outside it unchanged.
C2_ApplyRegion ==
    call.op # "none" =>
        /\ ~call.panic
        /\ Len(calls) = Cardinality(Region)
        /\ { calls[i] : i \in 1..Len(calls) }
              = { <<Index(dstBefore, d), Index(src, SrcOf(d))>> : d \in Region }
        /\ dst.dim = dstBefore.dim
        /\ \A d \in Pixels(dstBefore) :
              dst.data[Index(dstBefore, d) + 1] =
                 IF d \in Region
                 THEN blend_fn(call.op, dstBefore.data[Index(dstBefore, d) + 1],
                               src.data[Index(src, SrcOf(d)) + 1])
                 ELSE dstBefore.data[Index(dstBefore, d) + 1]

\* C3: if src_area clipped to the source buffer is empty, or the clipped
\* region placed at dst_pos does not overlap the destination, then apply,
\* premultiplied_over and additive_over never call the blend function and
\* leave every destination pixel and the destination dim unchanged.
C3_DisjointIsNoOp ==
    (call.op # "none" /\ Region = {}) =>
        /\ calls = <<>>
        /\ ~call.panic
        /\ dst = dstBefore

\* The source area has pixels of the source, but placed at dst_pos none of
\* them falls on the (non-empty) destination.
C3_Witness ==
    /\ call.op = "premultiplied_over"
    /\ ClippedSrc # {} /\ Region = {} /\ Pixels(dstBefore) # {}
    /\ calls = <<>> /\ dst = dstBefore

----------------------------------------------------------------------------
(* Claims about Area (AreaSpec).                                           *)

\* C8: a.intersection(b) is Some of the box {component-wise max of the two
\* pos1, component-wise min of the two pos2} when that box has pos1 < pos2 on
\* both axes, and None otherwise; a returned Area is non-empty, lies inside
\* both operands and holds exactly their common points; and
\* {(0,0),(10,10)} intersected with {(5,5),(15,15)} is Some({(5,5),(10,10)}).
C8_IntersectionBox ==
    /\ isect # Pending =>
         LET x1 == IF areaA.pos1.x >= areaB.pos1.x THEN areaA.pos1.x ELSE areaB.pos1.x
             y1 == IF areaA.pos1.y >= areaB.pos1.y THEN areaA.pos1.y ELSE areaB.pos1.y
             x2 == IF areaA.pos2.x <= areaB.pos2.x THEN areaA.pos2.x ELSE areaB.pos2.x
             y2 == IF areaA.pos2.y <= areaB.pos2.y THEN areaA.pos2.y ELSE areaB.pos2.y
         IN  /\ (x1 < x2 /\ y1 < y2) =>
                   /\ isect.some
                   /\ isect.val.pos1 = pos(x1, y1) /\ isect.val.pos2 = pos(x2, y2)
             /\ ~(x1 < x2 /\ y1 < y2) => isect = None
             /\ isect.some =>
                   /\ Points(isect.val) # {}
                   /\ Points(isect.val) \subseteq Points(areaA)
                   /\ Points(isect.val) \subseteq Points(areaB)
                   /\ Points(isect.val) = Points(areaA) \cap Points(areaB)
    /\ Area_intersection(area(pos(0, 0), pos(10, 10)), area(pos(5, 5), pos(15, 15)))
         = Some(area(pos(5, 5), pos(10, 10)))

\* Two Areas that overlap in part: the result is neither operand.
C8_Witness ==
    /\ isect.some /\ isect.val # areaA /\ isect.val # areaB
    /\ Points(isect.val) # {}

\* C9 as stated: for every Area a of non-zero width and height, inverted or
\* not, a.intersection(a) = Some(a.normalize()).
C9_SelfIntersectionAnyOrder ==
    (/\ isect # Pending /\ norm # Pending /\ areaB = areaA
     /\ areaA.pos1.x # areaA.pos2.x /\ areaA.pos1.y # areaA.pos2.y)
        => isect = norm

\* C9 amended: for every Area a with pos1.x < pos2.x and pos1.y < pos2.y,
\* a.intersection(a) = Some(a.normalize()).
C9_SelfIntersectionOrdered ==
    (/\ isect # Pending /\ norm # Pending /\ areaB = areaA
     /\ areaA.pos1.x < areaA.pos2.x /\ areaA.pos1.y < areaA.pos2.y)
        => isect = norm

C9_Witness ==
    /\ isect.some /\ norm.some /\ areaB = areaA
    /\ areaA.pos1.x < areaA.pos2.x /\ areaA.pos1.y < areaA.pos2.y
    /\ isect.val = areaA

----------------------------------------------------------------------------
(* Claims about Color (ColorSpec and BlendSpec).                           *)

Premultiplied(c) == c.r <= c.a /\ c.g <= c.a /\ c.b <= c.a
Channels == {"r", "g", "b", "a"}

\* C4: every color reachable from colors built by rgba/rgb/gray through any
\* sequence of apply_alpha, premultiplied_over and additive_over has
\* r <= a, g <= a and b <= a.
C4_PremultipliedPreserved == Premultiplied(c1) /\ Premultiplied(c2)

\* Two operators have been applied and the result is a translucent,
\* coloured value.
C4_Witness ==
    /\ nops >= 2 /\ lastOp.op # "none"
    /\ c1.a > 0 /\ c1.a < 255 /\ c1.r > 0 /\ c1.r # c1.b

\* C5 as stated: s.premultiplied_over(d) has the receiver s as the source:
\* each channel is (s.ch*255 + d.ch*(255 - s.a)) / 255, truncated.
C5_ReceiverIsSource ==
    lastOp.op = "premultiplied_over" =>
        \A ch \in Channels :
            LET num == lastOp.self[ch] * 255 + lastOp.other[ch] * (255 - lastOp.self.a)
            IN  /\ 255 * lastOp.out[ch] <= num
                /\ num < 255 * (lastOp.out[ch] + 1)

\* C5 amended: d.premultiplied_over(s) has the receiver d as the destination
\* and the argument s as the source: each channel is the low 8 bits of
\* (s.ch*255 + d.ch*(255 - s.a)) / 255, truncated; for a premultiplied s the
\* quotient is at most 255 and is the channel itself.
C5_ArgumentIsSource ==
    lastOp.op = "premultiplied_over" =>
        \A ch \in Channels :
            LET num == lastOp.other[ch] * 255 + lastOp.self[ch] * (255 - lastOp.other.a)
            IN  \E q \in 0..510 :
                    /\ 255 * q <= num /\ num < 255 * (q + 1)
                    /\ lastOp.out[ch] = q % 256
                    /\ Premultiplied(lastOp.other) => lastOp.out[ch] = q

\* A translucent source over a different destination.
C5_Witness ==
    /\ lastOp.op = "premultiplied_over"
    /\ lastOp.other.a = 128 /\ lastOp.other.r = 127
    /\ lastOp.self.r = 255 /\ lastOp.self.a = 255
    /\ lastOp.out.r = 254

\* C6: dst.premultiplied_over(src) with src.a = 255 is src, in all four
\* channels, whatever dst is.
C6_OpaqueSourceOverwrites ==
    (lastOp.op = "premultiplied_over" /\ lastOp.other.a = 255) =>
        lastOp.out = lastOp.other

C6_Witness ==
    /\ lastOp.op = "premultiplied_over" /\ lastOp.other.a = 255
    /\ lastOp.self # lastOp.other /\ lastOp.self.a = 128 /\ lastOp.self.r = 127
    /\ lastOp.out = lastOp.other

\* C7: for every premultiplied color c (a = 0 included) and every alpha,
\* c.apply_alpha(alpha) returns without a fault a color whose channels are
\* floor(channel * alpha / 255).
C7_ApplyAlphaRescales ==
    (lastOp.op = "apply_alpha" /\ Premultiplied(lastOp.self)) =>
        /\ lastOp.ok
        /\ \A ch \in Channels :
              /\ 255 * lastOp.out[ch] <= lastOp.self[ch] * lastOp.alpha
              /\ lastOp.self[ch] * lastOp.alpha < 255 * (lastOp.out[ch] + 1)

\* C7 without the a = 0 case: the channels of a premultiplied color with
\* a > 0 are rescaled to floor(channel * alpha / 255).
C7_ApplyAlphaRescalesNonZero ==
    (lastOp.op = "apply_alpha" /\ Premultiplied(lastOp.self) /\ lastOp.self.a > 0) =>
        /\ lastOp.ok
        /\ \A ch \in Channels :
              /\ 255 * lastOp.out[ch] <= lastOp.self[ch] * lastOp.alpha
              /\ lastOp.self[ch] * lastOp.alpha < 255 * (lastOp.out[ch] + 1)

----------------------------------------------------------------------------
(* Claims about AreaPosIter (IterSpec).                                    *)

\* The row-major sequence of the points of [pos1, pos2).
RowMajor(ar) ==
    LET w == ar.pos2.x - ar.pos1.x
        h == ar.pos2.y - ar.pos1.y
    IN  IF w <= 0 \/ h <= 0 THEN <<>>
        ELSE [k \in 1..(w * h) |->
                pos(ar.pos1.x + ((k - 1) % w), ar.pos1.y + ((k - 1) \div w))]

\* C10: over a normalized Area (zero width or height included) pos_iter
\* yields no Pos outside [pos1, pos2), and when it ends it has yielded every
\* Pos of the box exactly once, in row-major order.
C10_PosIterRowMajor ==
    (it.area.pos1.x <= it.area.pos2.x /\ it.area.pos1.y <= it.area.pos2.y) =>
        /\ \A i \in 1..Len(yielded) : yielded[i] \in Points(it.area)
        /\ itDone => yielded = RowMajor(it.area)

----------------------------------------------------------------------------
(* Claims about glyph drawing (DrawSpec).                                  *)

\* The rectangle [glyph_loc, glyph_loc + sz) lies inside the font bitmap.
InsideFont(font, glyph_loc, sz) ==
    /\ 0 <= glyph_loc.x /\ glyph_loc.x + sz.w <= font.width
    /\ 0 <= glyph_loc.y
    /\ (glyph_loc.y + sz.h) * font.width <= Len(font.bitmap)

\* The coverage byte of the font at column x of row y.
Mask(font, x, y) == font.bitmap[y * font.width + x + 1]

\* The destination pixels of the rectangle [loc, loc + sz).
Target == Points(Rect_area(rect(draw.loc, draw.sz))) \cap Pixels(dstBefore)

\* The call returned, every pixel p of Target is the old pixel with
\* color.apply_alpha(mask) blended over it, mask sampled at
\* glyph_loc + (p - loc), and every other pixel is as it was.
MaskedOver ==
    /\ ~draw.panic
    /\ dst.dim = dstBefore.dim
    /\ Len(dst.data) = Len(dstBefore.data)
    /\ \A p \in Pixels(dstBefore) :
          LET old == dstBefore.data[Index(dstBefore, p) + 1]
              mask == Mask(TheFont, draw.glyph_loc.x + p.x - draw.loc.x,
                                    draw.glyph_loc.y + p.y - draw.loc.y)
              fg == Color_apply_alpha(draw.color, mask)
          IN  dst.data[Index(dstBefore, p) + 1] =
                 IF p \in Target
                 THEN (IF fg.ok THEN Color_premultiplied_over(old, fg.val)
                       ELSE Color_default)
                 ELSE old

\* C11: draw_font_rect with the glyph rectangle inside the font bitmap
\* replaces every destination pixel p of [loc, loc + size) inside the buffer
\* by old.premultiplied_over(color.apply_alpha(mask)), mask being the font
\* byte at glyph_source_origin + (p - loc), and changes no other pixel; an
\* empty intersection draws nothing.
C11_DrawFontRect ==
    (draw.op = "draw_font_rect" /\ InsideFont(TheFont, draw.glyph_loc, draw.sz)) =>
        /\ MaskedOver
        /\ Target = {} => dst = dstBefore

\* C11 for a color whose alpha is not 0.
C11_DrawFontRectNonZeroAlpha ==
    (/\ draw.op = "draw_font_rect" /\ InsideFont(TheFont, draw.glyph_loc, draw.sz)
     /\ draw.color.a > 0) =>
        /\ MaskedOver
        /\ Target = {} => dst = dstBefore

\* C20: draw_glyph(loc, font, glyph, color) leaves the buffer as
\* draw_font_rect(loc, font, glyph.pos, glyph.size, color) leaves it, for
\* every loc.
C20_DrawGlyphIsDrawFontRect ==
    draw.op = "draw_glyph" =>
        LET ref == draw_font_rect(dstBefore, draw.loc, TheFont, draw.glyph.pos,
                                  draw.glyph.size, draw.color, debug)
        IN  /\ dst = ref.buf
            /\ draw.panic = ref.panic

\* C20 at loc = (0, 0).
C20_DrawGlyphAtOrigin ==
    (draw.op = "draw_glyph" /\ draw.loc = pos(0, 0)) =>
        LET ref == draw_font_rect(dstBefore, draw.loc, TheFont, draw.glyph.pos,
                                  draw.glyph.size, draw.color, debug)
        IN  /\ dst = ref.buf
            /\ draw.panic = ref.panic

----------------------------------------------------------------------------
(* Claims about ProgressBar::draw_normal (DrawSpec).                       *)

\* The split column as the documentation gives it:
\* A.pos1.x + trunc((A.pos2.x - A.pos1.x) * p), from the unclipped Area.
SplitOf(bar) ==
    bar.area.pos1.x
      + trunc((bar.area.pos2.x - bar.area.pos1.x) * bar.progress.num,
              bar.progress.den)

\* The pixels of the bar's Area inside the buffer.
BarPixels == Points(draw.bar.area) \cap Pixels(dstBefore)

----------------------------------------------------------------------------
(* Claims about glyph layout (LayoutSpec).                                 *)

Matched(item) == item.kind # "Unknown"

\* The sum of the widths of the matched glyphs among the first k items.
RECURSIVE SumWidths(_, _)
SumWidths(items, k) ==
    IF k = 0 THEN 0
    ELSE SumWidths(items, k - 1)
           + (IF Matched(items[k]) THEN items[k].glyph.size.w ELSE 0)

\* The number of input items the first k calls of next have taken.
RECURSIVE Taken(_)
Taken(k) == IF k = 0 THEN 0 ELSE Taken(k - 1) + trace[k].eaten

\* C12: the straight layout emits one result per lookup result, in order:
\* a matched glyph is Handled at (sum of the widths of the matched glyphs
\* before it, 0) plus its render offset and advances the cursor by its
\* width; an unmatched character is Unhandled(ch) and leaves the cursor.
C12_StraightLayout ==
    layout.kind = "straight" =>
        \A k \in 1..Len(trace) :
           IF k > Len(layout.input) THEN trace[k].ret = <<>>
           ELSE LET item == layout.input[k]
                    cur == pos(SumWidths(layout.input, k - 1), 0)
                IN  /\ trace[k].before = cur
                    /\ IF Matched(item)
                       THEN /\ trace[k].ret =
                                 <<Handled(item.glyph.pos, item.glyph.size,
                                           Pos_add(cur, item.glyph.offset),
                                           item.ch1, item.ch2)>>
                            /\ trace[k].after = pos(cur.x + item.glyph.size.w, 0)
                       ELSE /\ trace[k].ret = <<Unhandled(item.ch1)>>
                            /\ trace[k].after = cur

\* A matched glyph, an unmatched character and a glyph with a render
\* offset, laid out to the end.
C12_Witness ==
    /\ layout.kind = "straight" /\ Ended /\ Len(trace) = 4
    /\ Matched(layout.input[1]) /\ ~Matched(layout.input[2])
    /\ Matched(layout.input[3]) /\ layout.input[3].glyph.offset.x # 0
    /\ trace[3].ret[1].offset.x =
          layout.input[1].glyph.size.w + layout.input[3].glyph.offset.x

\* What the documentation says about the glyph a call of the line-wrap
\* layout returns: it wraps exactly when cursor.x + glyph.width >
\* line_width (the render offset not counted).
WrapsAsDocumented(k) ==
    LET item == layout.input[Taken(k)]
        cur == trace[k].cursor
        w == item.glyph.size.w
        go == item.glyph.offset
        gc == trace[k].ret[1]
    IN  IF cur.x + w > layout.it.width
        THEN /\ gc.offset = pos(0, cur.y + go.y + layout.it.height)
             /\ trace[k].after = pos(w, cur.y + layout.it.height)
        ELSE /\ gc.offset = Pos_add(cur, go)
             /\ trace[k].after = pos(cur.x + w, cur.y)

\* C13: in the line-wrap layout a matched glyph is wrapped exactly when
\* cursor.x + glyph.width > line_width, cursor.x being the horizontal
\* cursor before the glyph without its render offset; a wrapped glyph is
\* emitted at x = 0 with y advanced by line_height and leaves the cursor at
\* its width; a glyph that is not wrapped is emitted at the straight
\* position with the vertical cursor unchanged.
C13_WrapCondition ==
    layout.kind = "line_wrap" =>
        \A k \in 1..Len(trace) :
           (trace[k].ret # <<>> /\ trace[k].ret[1].handled) => WrapsAsDocumented(k)

\* C13 for glyphs whose render offset has x = 0.
C13_WrapConditionNoOffset ==
    layout.kind = "line_wrap" =>
        \A k \in 1..Len(trace) :
           (/\ trace[k].ret # <<>> /\ trace[k].ret[1].handled
            /\ layout.input[Taken(k)].glyph.offset.x = 0) => WrapsAsDocumented(k)

IsNewline(item) == item.ch1 = "\n" \/ item.ch2 = "\n"

\* What call k of the line-wrap layout does with the newlines among the
\* items it takes, `nl` saying which items are newlines: every item but
\* the returned one is a newline, the returned one is none, and each
\* newline has reset the horizontal cursor and advanced the vertical one.
NewlinesSkipped(k, nl(_)) ==
    LET first == Taken(k - 1) + 1
        last == Taken(k)
        skipped == IF trace[k].ret = <<>> THEN first..last ELSE first..(last - 1)
    IN  /\ \A j \in skipped : nl(layout.input[j])
        /\ trace[k].ret # <<>> => ~nl(layout.input[last])
        /\ skipped # {} =>
              trace[k].cursor =
                 pos(0, trace[k].before.y + Cardinality(skipped) * layout.it.height)
        /\ skipped = {} => trace[k].cursor = trace[k].before
        /\ Ended => Taken(Len(trace)) = Len(layout.input)

\* C14: in the line-wrap layout every newline character of the input resets
\* the horizontal cursor to 0, advances the vertical cursor by line_height
\* and produces no output item: the call that takes it returns the result
\* of the next item that is no newline, or ends the sequence.
C14_NewlineNoOutput ==
    layout.kind = "line_wrap" =>
        \A k \in 1..Len(trace) : NewlinesSkipped(k, IsNewline)

IsUnmatchedNewline(item) == ~Matched(item) /\ item.ch1 = "\n"

\* C14 for the newlines the font has no glyph for.
C14_UnmatchedNewlineNoOutput ==
    layout.kind = "line_wrap" =>
        \A k \in 1..Len(trace) : NewlinesSkipped(k, IsUnmatchedNewline)

\* The input is n >= 1 matched glyphs, each wider than line_width.
AllTooWide ==
    /\ layout.kind = "line_wrap" /\ Len(layout.input) >= 1
    /\ \A j \in 1..Len(layout.input) :
          /\ Matched(layout.input[j])
          /\ layout.input[j].glyph.size.w > layout.it.width

\* C15: over n >= 1 matched glyphs with line_width narrower than every
\* glyph the line-wrap layout emits exactly one glyph per call, ends, and
\* the wrapped height (maximum vertical cursor plus line_height) is
\* n * line_height.
C15_AllWrapHeight ==
    AllTooWide =>
        /\ \A k \in 1..Len(trace) :
              k <= Len(layout.input) =>
                 /\ trace[k].eaten = 1
                 /\ trace[k].ret # <<>> /\ trace[k].ret[1].handled
        /\ Len(trace) <= Len(layout.input) + 1
        /\ Ended =>
              wrapped_height(layout.input, layout.it.width, layout.it.height)
                 = Len(layout.input) * layout.it.height

\* C15 with the height the code's cursor gives: (n + 1) * line_height.
C15_AllWrapHeightPlusOne ==
    (AllTooWide /\ \A j \in 1..Len(layout.input) : layout.input[j].glyph.offset.x >= 0) =>
        /\ \A k \in 1..Len(trace) :
              k <= Len(layout.input) =>
                 /\ trace[k].eaten = 1
                 /\ trace[k].ret # <<>> /\ trace[k].ret[1].handled
        /\ Len(trace) <= Len(layout.input) + 1
        /\ Ended =>
              wrapped_height(layout.input, layout.it.width, layout.it.height)
                 = (Len(layout.input) + 1) * layout.it.height

----------------------------------------------------------------------------
(* Claims about Screen (ScreenSpec).                                       *)

\* The last call was Screen::get, Screen::rect or Screen::present.
ScreenAccess == scrCall.op \in {"get", "rect", "present"}

\* What the documentation says of a call of get, rect or present: before
\* the first init / init_mode it fails the initialization assertion, after
\* an initialization to a non-zero width it passes.
AssertionGuards ==
    /\ (ScreenAccess /\ ~scrCall.inited) =>
          /\ ~scrCall.ok /\ panicked /\ scrCall.blt = <<>>
    /\ (ScreenAccess /\ scrCall.inited /\ scrCall.before.dim.w # 0) => scrCall.ok

\* C17: any get, rect or present before the first init / init_mode fails
\* the initialization assertion instead of handing out the buffer; after
\* initialization to a resolution with a non-zero width the calls pass.
C17_AssertBeforeInit == AssertionGuards

\* C17 as amended: the assertion guards the calls in a build with debug
\* assertions; in a build without them the calls hand out the empty,
\* uninitialized buffer.
C17_AssertBeforeInitDebugBuild ==
    /\ debug => AssertionGuards
    /\ (~debug /\ ScreenAccess) => scrCall.ok

\* In a debug build Screen::present before any initialization has failed
\* the assertion and nothing was handed to the transfer.
C17_Witness ==
    /\ debug /\ scrCall.op = "present" /\ ~scrCall.inited
    /\ ~scrCall.ok /\ panicked /\ scrCall.blt = <<>>

\* C18: the rectangle Screen::present hands to the transfer primitive is
\* clipped to the (initialized) Screen buffer: [dest, dest + dims) lies
\* inside [0, dim.w) x [0, dim.h).
C18_PresentClipped ==
    (scrCall.op = "present" /\ scrCall.inited /\ scrCall.blt # <<>>) =>
        LET b == scrCall.blt[1]
        IN  /\ b.src = b.dest
            /\ 0 <= b.dest.x /\ b.dest.x + b.dims.w <= scrCall.before.dim.w
            /\ 0 <= b.dest.y /\ b.dest.y + b.dims.h <= scrCall.before.dim.h

\* The storage of buf has exactly dim.w * dim.h elements.
Sized(buf) == Len(buf.data) = buf.dim.w * buf.dim.h

DrawOps == {"clear", "premultiplied_over", "additive_over", "draw_font_rect",
            "draw_glyph", "draw_normal", "draw_marquee_custom"}

----------------------------------------------------------------------------
(* Claims about the two revisions of the color model (BlendSpec).          *)

\* C21: for all colors x and y, x.premultiplied_over(y) of gfx2 (exported
\* as prelude_dev::gfx) returns the color x.premultiplied_over(y) of gfx
\* (exported as prelude::gfx) returns.
C21_RevisionsAgree ==
    lastOp.op = "gfx2_premultiplied_over" =>
        lastOp.out = Color_premultiplied_over(lastOp.self, lastOp.other)

\* C21 for premultiplied colors only.
C21_RevisionsAgreePremultiplied ==
    (/\ lastOp.op = "gfx2_premultiplied_over"
     /\ Premultiplied(lastOp.self) /\ Premultiplied(lastOp.other)) =>
        lastOp.out = Color_premultiplied_over(lastOp.self, lastOp.other)

====
